---- MODULE Spec2Model ----
(***************************************************************************)
(* The drawing and submission controller of the Sinhala letter recognition *)
(* front end (src/src/App.tsx): the React state of the App component, the  *)
(* 2D canvas it paints on, and the asynchronous handlePredict flow with    *)
(* its three awaits (canvasToBlob, fetch, response.json).                  *)
(*                                                                         *)
(* The canvas is modelled by one scanline of CanvasCols pixels; a pixel is *)
(* either black (the background) or white (painted by a stroke).  Text     *)
(* built by concatenation or by a template literal is a sequence of its    *)
(* parts, so that "the message contains X" is decidable.                   *)
(***************************************************************************)
EXTENDS Integers, Sequences, FiniteSets, TLC

\* ------------------------------------------------------------------ bounds
\* Number of pixels of the modelled scanline (the real canvas is 280 wide).
CanvasCols == 5

\* ------------------------------------------------------- program constants
DefaultStroke == 8
MinStroke == 4
MaxStroke == 16

\* Slider positions the model tries: both ends of the range and the default.
StrokeChoices == {MinStroke, DefaultStroke, MaxStroke}

Pixels == 0 .. (CanvasCols - 1)

\* JavaScript's undefined: the value of a field a JSON object does not carry.
Undefined == "undefined"

\* A falsy/truthy test of an optional string field, as `if (data.error)`.
Truthy(v) == v # Undefined /\ v # ""

\* useState<string>(''): no prediction; no error (a message of no parts).
NoPrediction == ""
NoError == << >>

\* The request of line 171-174 and the form data of lines 167-168.
PredictUrl == [origin |-> "http://127.0.0.1:5000", path |-> "/predict"]
FormField == "file"
FormFileName == "drawing.png"
BlobType == "image/png"

\* ----------------------------------------------------------------- inputs
Statuses == {200, 500}
ErrorTexts == {Undefined, "", "model unavailable"}
PredictionTexts == {Undefined, "ka"}
PredictedLetterTexts == {Undefined, "", "ga"}

\* What the backend can answer with: a body that is no JSON at all, the JSON
\* value null, a JSON array (which has none of the fields), or a JSON object
\* carrying any of the three fields.
Bodies ==
  { [kind |-> k, error |-> Undefined, prediction |-> Undefined,
     predicted_letter |-> Undefined] : k \in {"text", "null", "array"} }
  \cup
  { [kind |-> "object", error |-> e, prediction |-> p, predicted_letter |-> l] :
      e \in ErrorTexts, p \in PredictionTexts, l \in PredictedLetterTexts }

\* Rejections of fetch(): a TypeError with the browser's message.
FetchFailures == { [isError |-> TRUE, message |-> "Failed to fetch"] }

NoResponse == [status |-> 0, body |-> [kind |-> "none", error |-> Undefined,
               prediction |-> Undefined, predicted_letter |-> Undefined]]
NoBlob == [type |-> "none", pixels |-> {}]
EmptyPath == [open |-> FALSE, lo |-> 0, hi |-> 0, seg |-> FALSE]

VARIABLES
  isDrawing,    \* useState: a gesture is in progress
  isLoading,    \* useState: a submission is in progress
  prediction,   \* useState: the displayed label
  error,        \* useState: the displayed error message (sequence of parts)
  strokeWidth,  \* useState: the slider's value
  canvas,       \* the bitmap: the set of white pixels
  lineWidth,    \* ctx.lineWidth
  path,         \* ctx's current path
  pc,           \* where handlePredict is suspended: idle, blob, fetch, json
  blob,         \* the bitmap copy canvas.toBlob is encoding
  outstanding,  \* the requests issued and not yet answered or failed
  response,     \* the Response whose body is being read, or was read last
  sent,         \* requests issued by the current (or last) submission
  lastExit,     \* the exit path the last completed submission took
  mounted       \* the App component is mounted (the view exists)

vars == << isDrawing, isLoading, prediction, error, strokeWidth, canvas,
           lineWidth, path, pc, blob, outstanding, response, sent, lastExit,
           mounted >>

uiVars == << isLoading, prediction, error >>
drawVars == << isDrawing, strokeWidth, canvas, lineWidth, path >>
reqVars == << pc, blob, outstanding, response, sent, lastExit >>

\* ------------------------------------------------------------- canvas API
Min(a, b) == IF a <= b THEN a ELSE b
Max(a, b) == IF a >= b THEN a ELSE b

\* ctx.fillStyle = '#000000'; ctx.fillRect(0, 0, width, height): every pixel
\* of the bitmap `c` becomes black.
FillBlack(c) == c \ Pixels

\* ctx.beginPath(); ctx.moveTo(x): a new path of one point.  On a scanline a
\* connected path is the interval [lo, hi] it has swept; seg says whether it
\* holds a line segment yet (a lone point strokes nothing).
BeginPathMoveTo(x) == [open |-> TRUE, lo |-> x, hi |-> x, seg |-> FALSE]

\* ctx.lineTo(x): on a path with no subpath it only places the point.
LineTo(p, x) ==
  IF ~p.open THEN BeginPathMoveTo(x)
  ELSE [open |-> TRUE, lo |-> Min(p.lo, x), hi |-> Max(p.hi, x), seg |-> TRUE]

\* Half of the line width, in pixels, on each side of the path.
Radius(w) == w \div 2

\* ctx.stroke() with strokeStyle white: paints the whole current path with
\* the current line width.
Stroke(c, p, w) ==
  IF p.open /\ p.seg
  THEN c \cup { q \in Pixels : p.lo - Radius(w) <= q /\ q <= p.hi + Radius(w) }
  ELSE c

\* getCoordinates: client coordinates to bitmap coordinates.  The canvas is
\* displayed at its bitmap size, at the left edge of the event's frame.
CanvasRect == [left |-> 0, width |-> CanvasCols]
GetCoordinates(clientX) ==
  ((clientX - CanvasRect.left) * CanvasCols) \div CanvasRect.width

\* Pointer positions over the displayed canvas.
ClientXs == { CanvasRect.left + i : i \in 0 .. (CanvasRect.width - 1) }

\* ------------------------------------------------------------------- Init
\* After mount: the useState defaults, and both effects run once.
Init ==
  /\ isDrawing = FALSE
  /\ isLoading = FALSE
  /\ prediction = NoPrediction
  /\ error = NoError
  /\ strokeWidth = DefaultStroke
  /\ canvas = {}
  /\ lineWidth = DefaultStroke
  /\ path = EmptyPath
  /\ pc = "idle"
  /\ blob = NoBlob
  /\ outstanding = << >>
  /\ response = NoResponse
  /\ sent = 0
  /\ lastExit = "none"
  /\ mounted = TRUE

\* ---------------------------------------------------------------- drawing
\* onMouseDown / onTouchStart
StartDrawing(clientX) ==
  /\ mounted
  /\ isDrawing' = TRUE
  /\ path' = BeginPathMoveTo(GetCoordinates(clientX))
  /\ UNCHANGED << strokeWidth, canvas, lineWidth >>
  /\ UNCHANGED uiVars
  /\ UNCHANGED reqVars
  /\ UNCHANGED mounted

\* onMouseMove / onTouchMove
Draw(clientX) ==
  /\ mounted
  /\ IF ~isDrawing
     THEN UNCHANGED << path, canvas >>
     ELSE /\ path' = LineTo(path, GetCoordinates(clientX))
          /\ canvas' = Stroke(canvas, path', lineWidth)
  /\ UNCHANGED << isDrawing, strokeWidth, lineWidth >>
  /\ UNCHANGED uiVars
  /\ UNCHANGED reqVars
  /\ UNCHANGED mounted

\* onMouseUp / onMouseLeave / onTouchEnd
StopDrawing ==
  /\ mounted
  /\ isDrawing' = FALSE
  /\ UNCHANGED << strokeWidth, canvas, lineWidth, path >>
  /\ UNCHANGED uiVars
  /\ UNCHANGED reqVars
  /\ UNCHANGED mounted

\* The effect of lines 20-38, which React runs after mount and after every
\* render in which strokeWidth changed.  Assigning canvas.width resets the
\* bitmap and the context (its current path included); then the bitmap is
\* filled black.
InitEffectCanvas(c) == FillBlack({})
InitEffectPath(p) == EmptyPath

\* The slider's onChange: setStrokeWidth(w), then the render's two effects.
\* React skips the render, and so the effects, when the value is the same.
SetStrokeWidth(w) ==
  /\ mounted
  /\ w # strokeWidth
  /\ strokeWidth' = w
  /\ canvas' = InitEffectCanvas(canvas)
  /\ path' = InitEffectPath(path)
  /\ lineWidth' = w
  /\ UNCHANGED isDrawing
  /\ UNCHANGED uiVars
  /\ UNCHANGED reqVars
  /\ UNCHANGED mounted

\* A Clear button that is never disabled.
ClearNeverDisabled == FALSE

\* The Clear button is disabled while loading (disabled={isLoading}).
ClearDisabled == isLoading

\* clearCanvas
ClearCanvas ==
  /\ mounted
  /\ ~ClearDisabled
  /\ canvas' = FillBlack(canvas)
  /\ prediction' = NoPrediction
  /\ error' = NoError
  /\ UNCHANGED << isDrawing, strokeWidth, lineWidth, path, isLoading >>
  /\ UNCHANGED reqVars
  /\ UNCHANGED mounted

\* ------------------------------------------------------------- submission
\* response.ok: the status is in the range 200-299.
Ok(status) == status >= 200 /\ status <= 299

\* `HTTP error! status: ${response.status}`
StatusLine(status) == << "HTTP error! status: ", ToString(status) >>

\* 'Invalid response from server: No prediction field found'
InvalidResponse == << "Invalid response from server: No prediction field found" >>

\* A hint that names another host than the request's.
HintAddressLocalhost == "http://localhost:5000"

\* The address the catch block's hint names (line 195).
HintAddress == "http://127.0.0.1:5000"

\* A catch block that only logs: nothing is displayed.
CatchMessageSwallowed(err) == << >>

\* The catch block: err instanceof Error ? err.message : '...', wrapped in
\* `Error: ${errorMessage}. Make sure the backend server is running on ...`.
CatchMessage(err) ==
  << "Error: ",
     IF err.isError THEN err.message ELSE "Failed to connect to the API",
     ". Make sure the backend server is running on ",
     HintAddress >>

\* What is thrown inside the try block.
BlobError == [isError |-> TRUE, message |-> "Failed to convert canvas to blob"]
JsonSyntaxError == [isError |-> TRUE, message |-> "Unexpected token in JSON"]
NullTypeError == [isError |-> TRUE, message |-> "Cannot read properties of null"]

\* formData.append('file', blob, 'drawing.png'); fetch(url, {method: 'POST', body})
PredictRequest(b) ==
  [method |-> "POST", url |-> PredictUrl,
   form |-> << [name |-> FormField, filename |-> FormFileName, value |-> b] >>]

\* The status line preferred over the server's text.
ErrorMsgStatusFirst(status, data) ==
  IF ~Ok(status) THEN StatusLine(status) ELSE << data.error >>

\* The message of `if (!response.ok || data.error)`: the server's text when
\* there is one, else the status line.
ErrorMsg(status, data) ==
  IF Truthy(data.error) THEN << data.error >> ELSE StatusLine(status)

\* The field of the payload the success branch reads (line 188).
SuccessField(data) == data.predicted_letter

\* A success branch with no else: a payload without the field shows nothing.
HandleDataSilent(status, data, p, e) ==
  IF ~Ok(status) \/ Truthy(data.error)
  THEN [exit |-> "server_error", prediction |-> p, error |-> ErrorMsg(status, data)]
  ELSE IF Truthy(SuccessField(data))
       THEN [exit |-> "success", prediction |-> SuccessField(data), error |-> e]
       ELSE [exit |-> "missing_field", prediction |-> p, error |-> e]

\* The error branch without its return: the success branch runs as well.
HandleDataNoReturn(status, data, p, e) ==
  IF ~Ok(status) \/ Truthy(data.error)
  THEN [exit |-> "server_error",
        prediction |-> IF Truthy(SuccessField(data)) THEN SuccessField(data) ELSE p,
        error |-> ErrorMsg(status, data)]
  ELSE IF Truthy(SuccessField(data))
       THEN [exit |-> "success", prediction |-> SuccessField(data), error |-> e]
       ELSE [exit |-> "missing_field", prediction |-> p, error |-> InvalidResponse]

\* Lines 181-192 on a parsed object: the exit taken, and the state setters
\* called (a setter not called leaves the value of the submission's start).
HandleData(status, data, p, e) ==
  IF ~Ok(status) \/ Truthy(data.error)
  THEN [exit |-> "server_error", prediction |-> p, error |-> ErrorMsg(status, data)]
  ELSE IF Truthy(SuccessField(data))
       THEN [exit |-> "success", prediction |-> SuccessField(data), error |-> e]
       ELSE [exit |-> "missing_field", prediction |-> p, error |-> InvalidResponse]

\* setIsLoading(false) placed after the try/catch instead of in a finally:
\* the early return of line 184 leaves the flag set.
LoadingKeptOnEarlyReturn(exit) == exit = "server_error"

\* The finally block: setIsLoading(false), on every exit of the try.
FinallyLoading(exit) == FALSE

\* A handlePredict that does not set the flag, or keeps the old label.
SubmitLoadingForgotten == FALSE
SubmitPredictionKept(p) == p

\* A handlePredict that keeps the old error message.
SubmitErrorKept(e) == e

\* The first three setters of handlePredict (lines 158-160).
SubmitLoading == TRUE
SubmitError(e) == NoError
SubmitPrediction(p) == NoPrediction

\* A Predict button that is never disabled.
PredictNeverDisabled == FALSE

\* The Predict button is disabled while loading (disabled={isLoading}).
PredictDisabled == isLoading

\* A click on Predict: handlePredict up to its first await.  canvas.toBlob
\* copies the bitmap when it is called.  The handler itself tests nothing:
\* the disabled button is all that keeps a second call from starting.
HandlePredict ==
  /\ mounted
  /\ ~PredictDisabled
  /\ isLoading' = SubmitLoading
  /\ error' = SubmitError(error)
  /\ prediction' = SubmitPrediction(prediction)
  /\ blob' = [type |-> BlobType, pixels |-> canvas]
  /\ pc' = "blob"
  /\ sent' = 0
  /\ response' = NoResponse
  /\ lastExit' = "pending"
  /\ UNCHANGED outstanding
  /\ UNCHANGED drawVars
  /\ UNCHANGED mounted

\* A state setter that acts whether or not the component is mounted.
SetStateAlways(old, new) == new

\* A useState setter called from handlePredict's continuation: React 18
\* drops a state update of a component that has been unmounted.
SetState(old, new) == IF mounted THEN new ELSE old

\* The end of a submission: the setters of the exit taken, then finally.
Complete(exit, p, e) ==
  /\ prediction' = SetState(prediction, p)
  /\ error' = SetState(error, e)
  /\ isLoading' = SetState(isLoading, FinallyLoading(exit))
  /\ pc' = "idle"
  /\ lastExit' = exit
  /\ blob' = NoBlob

\* toBlob's callback receives a blob: the form is built and the POST issued.
BlobResolve ==
  /\ pc = "blob"
  /\ outstanding' = Append(outstanding, PredictRequest(blob))
  /\ sent' = sent + 1
  /\ pc' = "fetch"
  /\ UNCHANGED << blob, response, lastExit >>
  /\ UNCHANGED uiVars
  /\ UNCHANGED drawVars
  /\ UNCHANGED mounted

\* toBlob's callback receives null: canvasToBlob rejects, caught at line 193.
BlobReject ==
  /\ pc = "blob"
  /\ Complete("raster_fail", prediction, CatchMessage(BlobError))
  /\ UNCHANGED << outstanding, response, sent >>
  /\ UNCHANGED drawVars
  /\ UNCHANGED mounted

\* fetch resolves with a Response; response.json() starts reading the body.
FetchResolve(status, body) ==
  /\ pc = "fetch"
  /\ response' = [status |-> status, body |-> body]
  /\ pc' = "json"
  /\ UNCHANGED << blob, outstanding, sent, lastExit >>
  /\ UNCHANGED uiVars
  /\ UNCHANGED drawVars
  /\ UNCHANGED mounted

\* fetch rejects: caught at line 193.
FetchReject(cause) ==
  /\ pc = "fetch"
  /\ outstanding' = Tail(outstanding)
  /\ Complete("transport_fail", prediction, CatchMessage(cause))
  /\ UNCHANGED << response, sent >>
  /\ UNCHANGED drawVars
  /\ UNCHANGED mounted

\* response.json() settles and the rest of the try block runs: the body is
\* not JSON (json() rejects), is null (reading data.error throws), or is an
\* object handled by lines 181-192.
JsonSettle ==
  /\ pc = "json"
  /\ outstanding' = Tail(outstanding)
  /\ IF response.body.kind = "text"
     THEN Complete("bad_body", prediction, CatchMessage(JsonSyntaxError))
     ELSE IF response.body.kind = "null"
     THEN Complete("bad_body", prediction, CatchMessage(NullTypeError))
     ELSE LET r == HandleData(response.status, response.body, prediction, error)
          IN  Complete(r.exit, r.prediction, r.error)
  /\ UNCHANGED << response, sent >>
  /\ UNCHANGED drawVars
  /\ UNCHANGED mounted

\* ------------------------------------------------------ the specification
Next ==
  \/ \E x \in ClientXs : StartDrawing(x)
  \/ \E x \in ClientXs : Draw(x)
  \/ StopDrawing
  \/ \E w \in StrokeChoices : SetStrokeWidth(w)
  \/ ClearCanvas
  \/ HandlePredict
  \/ BlobResolve
  \/ BlobReject
  \/ \E s \in Statuses, b \in Bodies : FetchResolve(s, b)
  \/ \E f \in FetchFailures : FetchReject(f)
  \/ JsonSettle

Spec == Init /\ [][Next]_vars

\* The view is torn down: the component is unmounted and its canvas leaves
\* the document.  A handlePredict that is suspended keeps running.
Unmount ==
  /\ mounted
  /\ mounted' = FALSE
  /\ UNCHANGED uiVars
  /\ UNCHANGED drawVars
  /\ UNCHANGED reqVars

TeardownNext == Next \/ Unmount

\* The App with a teardown of the view at any moment.
TeardownSpec == Init /\ [][TeardownNext]_vars

\* A submission settles: any of the steps that resume handlePredict.
BlobSettle == BlobResolve \/ BlobReject
FetchSettle ==
  \/ \E s \in Statuses, b \in Bodies : FetchResolve(s, b)
  \/ \E f \in FetchFailures : FetchReject(f)

\* The rasterization, the network call and the reading of the body each
\* eventually resolve or reject.
FairSpec ==
  Spec /\ WF_vars(BlobSettle) /\ WF_vars(FetchSettle) /\ WF_vars(JsonSettle)

\* ----------------------------------------------------------------- claims
Contains(msg, part) == \E i \in 1 .. Len(msg) : msg[i] = part
Completed == lastExit \notin {"none", "pending"}
\* The step that handles a parsed or unparseable response body.
HandlesResponse == pc = "json" /\ pc' = "idle"
ObjectBody == response.body.kind = "object"

\* C1: a success-status response whose body is {"prediction": L}, L not
\* empty and no error field, ends the submission with prediction = L and no
\* error message.
C1_PredictionFieldShown ==
  [][ ( /\ HandlesResponse
        /\ Ok(response.status)
        /\ ObjectBody
        /\ response.body.error = Undefined
        /\ response.body.predicted_letter = Undefined
        /\ Truthy(response.body.prediction) )
      => ( prediction' = response.body.prediction /\ error' = NoError ) ]_vars

\* What C2 expects to be displayed for the response being handled.
C2_Expected ==
  IF ObjectBody /\ Truthy(response.body.error)
  THEN << response.body.error >>
  ELSE StatusLine(response.status)

\* C2 as stated: any response with a non-success status, or with a non-empty
\* error field, ends the submission with no prediction and with the server's
\* text, or the status line when the server sent no text.
C2_AnyErrorResponse ==
  [][ ( /\ HandlesResponse
        /\ (~Ok(response.status) \/ (ObjectBody /\ Truthy(response.body.error))) )
      => ( prediction' = NoPrediction /\ error' = C2_Expected ) ]_vars

\* C2 (amended): a response whose body parses as a JSON object, and whose
\* status is non-success or whose error field is non-empty, ends the
\* submission with no prediction and with exactly the server's error text,
\* or the status line when the server sent no text, whatever success field
\* the body carries.
C2_ServerErrorShown ==
  [][ ( /\ HandlesResponse
        /\ ObjectBody
        /\ (~Ok(response.status) \/ Truthy(response.body.error)) )
      => ( prediction' = NoPrediction /\ error' = C2_Expected ) ]_vars

\* HTTP 500 with {"error": "model unavailable"} and a success field besides.
C2_Witness ==
  /\ pc = "idle"
  /\ lastExit = "server_error"
  /\ response.status = 500
  /\ response.body.error = "model unavailable"
  /\ Truthy(response.body.predicted_letter)
  /\ error = << "model unavailable" >>
  /\ prediction = NoPrediction

\* C3: a success-status object with no error field and no (or an empty)
\* success field ends the submission with the invalid-response error and no
\* prediction; and every submission ends with exactly one of prediction and
\* error non-empty.
C3_MissingFieldReported ==
  /\ [][ ( /\ HandlesResponse
           /\ Ok(response.status)
           /\ ObjectBody
           /\ ~Truthy(response.body.error)
           /\ ~Truthy(response.body.predicted_letter) )
         => ( /\ error' = InvalidResponse
              /\ error' # NoError
              /\ prediction' = NoPrediction ) ]_vars
  /\ [][ (pc # "idle" /\ pc' = "idle")
         => ((prediction' # NoPrediction) # (error' # NoError)) ]_vars

\* HTTP 200 with the body {}.
C3_Witness ==
  /\ pc = "idle"
  /\ lastExit = "missing_field"
  /\ response.status = 200
  /\ response.body.error = Undefined
  /\ response.body.prediction = Undefined
  /\ response.body.predicted_letter = Undefined
  /\ error = InvalidResponse
  /\ prediction = NoPrediction

\* C4: when fetch rejects, the submission ends with no prediction and an
\* error message that contains the address the request was sent to; the one
\* request is gone and no other is issued for that submission.
C4_TransportFailure ==
  /\ [][ (\E f \in FetchFailures : FetchReject(f))
         => ( /\ prediction' = NoPrediction
              /\ Contains(error', PredictUrl.origin)
              /\ pc' = "idle" ) ]_vars
  /\ [](lastExit = "transport_fail"
         => (sent = 1 /\ outstanding = << >> /\ pc = "idle"))

C4_Witness ==
  /\ lastExit = "transport_fail"
  /\ Contains(error, "Failed to fetch")
  /\ Contains(error, PredictUrl.origin)
  /\ prediction = NoPrediction
  /\ sent = 1

\* C5: prediction and error are never both non-empty, and a submission has
\* emptied both before it issues its request.
C5_AtMostOne ==
  /\ ~(prediction # NoPrediction /\ error # NoError)
  /\ (pc = "blob" => (prediction = NoPrediction /\ error = NoError /\ sent = 0))

\* A submission of a drawing, before its request is issued.
C5_Witness ==
  /\ pc = "blob"
  /\ sent = 0
  /\ blob.pixels # {}
  /\ prediction = NoPrediction
  /\ error = NoError

\* C6: a submission that set loading eventually clears it.
C6_LoadingReleased == isLoading ~> ~isLoading

\* The early return inside the try block has released the loading flag.
C6_Witness == lastExit = "server_error" /\ ~isLoading /\ error # NoError

\* C7: loading is true exactly while handlePredict is suspended; only a
\* submit sets it, and only the end of that submission clears it.
C7_LoadingIffInFlight ==
  /\ [](isLoading <=> pc # "idle")
  /\ [][ (~isLoading /\ isLoading') => (pc = "idle" /\ pc' = "blob") ]_vars
  /\ [][ (isLoading /\ ~isLoading')
         => (lastExit = "pending" /\ lastExit' \notin {"none", "pending"}) ]_vars

C7_Witness == isLoading /\ pc = "json" /\ Len(outstanding) = 1

\* C8: while loading neither Clear nor Predict can act; once the submission
\* has completed both can.
C8_ControlsDisabledWhileLoading ==
  /\ isLoading => (~ENABLED ClearCanvas /\ ~ENABLED HandlePredict)
  /\ (Completed /\ pc = "idle") => (ENABLED ClearCanvas /\ ENABLED HandlePredict)

C8_Witness == Completed /\ pc = "idle" /\ lastExit = "success" /\ ENABLED ClearCanvas

\* The requests in flight are POSTs carrying the image in the one field
\* named file.
RequestsWellFormed ==
  \A i \in 1 .. Len(outstanding) :
    /\ outstanding[i].method = "POST"
    /\ Len(outstanding[i].form) = 1
    /\ outstanding[i].form[1].name = "file"
    /\ outstanding[i].form[1].value.type = "image/png"

\* C9 as stated: at most one request is in flight, and every submission
\* issues exactly one POST with the image in the field named file.
C9_ExactlyOnePost ==
  /\ Len(outstanding) <= 1
  /\ RequestsWellFormed
  /\ Completed => sent = 1

\* C9 (amended): at most one request is in flight; a submission issues its
\* one POST, with the image in the field named file, when the rasterization
\* succeeds, and issues none when the rasterization fails.
C9_AtMostOnePost ==
  /\ Len(outstanding) <= 1
  /\ RequestsWellFormed
  /\ pc \in {"fetch", "json"} => (sent = 1 /\ Len(outstanding) = 1)
  /\ pc \in {"idle", "blob"} => outstanding = << >>
  /\ Completed => sent = (IF lastExit = "raster_fail" THEN 0 ELSE 1)

C9_Witness ==
  /\ pc = "fetch"
  /\ Len(outstanding) = 1
  /\ outstanding[1].form[1].value.pixels # {}
  /\ outstanding[1].form[1].value.pixels # canvas

\* C10: a change of the stroke width leaves the painted pixels as they are,
\* and only the clear action makes a painted canvas blank.
C10_WidthKeepsPixels ==
  /\ [][ strokeWidth' # strokeWidth => canvas' = canvas ]_vars
  /\ [][ (canvas # {} /\ canvas' = {}) => ClearCanvas ]_vars

\* The bitmap is blank although the current path holds a segment, which was
\* stroked when it was added: the bitmap was cleared after that stroke, and
\* no pointer-down has begun a new path since.
ClearedUnderPath == canvas = {} /\ path.open /\ path.seg

\* C11: clear leaves the bitmap as it was at mount (all black) with no
\* prediction and no error, and after a clear no event paints until a new
\* stroke is begun by a pointer-down.
C11_ClearRestoresBlank ==
  /\ [][ ClearCanvas
         => (canvas' = {} /\ prediction' = NoPrediction /\ error' = NoError) ]_vars
  /\ [][ ClearedUnderPath => canvas' = {} ]_vars

\* The last completed submission ended in the success branch, and no new
\* submission has started since.
LastSucceeded ==
  /\ pc = "idle"
  /\ lastExit = "success"
  /\ Ok(response.status)
  /\ Truthy(response.body.predicted_letter)
  /\ prediction \in {NoPrediction, response.body.predicted_letter}

\* C12 as stated: a prediction is displayed only if the last completed
\* submission got a success status, a body with no error field and a
\* non-empty success field.
C12_OnlyWithoutErrorField ==
  prediction # NoPrediction
    => (LastSucceeded /\ response.body.error = Undefined)

\* C12 (amended): a prediction is displayed only if the last completed
\* submission got a success status, no non-empty error field and a non-empty
\* success field, with no clear and no new submission since; a clear and a
\* new submission empty it.
C12_OnlyAfterSuccess ==
  /\ [](prediction # NoPrediction
          => (LastSucceeded /\ ~Truthy(response.body.error)))
  /\ [][ (ClearCanvas \/ HandlePredict) => prediction' = NoPrediction ]_vars
  /\ [][ (prediction = NoPrediction /\ prediction' # NoPrediction)
         => (pc = "json" /\ lastExit' = "success") ]_vars

\* A label displayed for a response whose error field is the empty string.
C12_Witness ==
  /\ LastSucceeded
  /\ response.body.error = ""
  /\ prediction = response.body.predicted_letter
  /\ error = NoError

\* C13: every exit of a submission but the success branch leaves a
\* non-empty error message, no prediction and loading false; and every
\* submission ends in one of the recorded exits (nothing is thrown past the
\* catch block).
C13_FailuresSurfaced ==
  /\ [][ (pc # "idle" /\ pc' = "idle" /\ lastExit' # "success")
         => (error' # NoError /\ prediction' = NoPrediction /\ ~isLoading') ]_vars
  /\ [][ (pc # "idle" /\ pc' = "idle")
         => lastExit' \in {"success", "server_error", "missing_field",
                            "raster_fail", "transport_fail", "bad_body"} ]_vars
  /\ [][ (pc = "json" /\ pc' = "idle" /\ response.body.kind \in {"text", "null"})
         => (lastExit' = "bad_body" /\ Contains(error', "Error: ")) ]_vars

\* A body that is the JSON value null: reading data.error threw, and the
\* catch block displayed it.
C13_Witness ==
  /\ pc = "idle"
  /\ lastExit = "bad_body"
  /\ response.body.kind = "null"
  /\ Contains(error, NullTypeError.message)
  /\ prediction = NoPrediction
  /\ ~isLoading

\* C14: the drawing flag rises only at a pointer or touch start and falls
\* only at a pointer-up, pointer-leave or touch-end; a move paints the pixel
\* under the pointer when the flag is set, and changes nothing when it is
\* not.
C14_FlagGatesPainting ==
  /\ [][ (~isDrawing /\ isDrawing') => \E x \in ClientXs : StartDrawing(x) ]_vars
  /\ [][ (isDrawing /\ ~isDrawing') => StopDrawing ]_vars
  /\ [][ \A x \in ClientXs :
           Draw(x) => IF isDrawing
                      THEN GetCoordinates(x) \in canvas'
                      ELSE canvas' = canvas ]_vars

\* C16: while loading, no prediction and no error are displayed, and a step
\* that is not a step of the submission itself (a gesture, a change of the
\* stroke width) leaves prediction, error and loading as they are.
C16_NothingShownWhileLoading ==
  /\ [](isLoading => (prediction = NoPrediction /\ error = NoError))
  /\ [][ (isLoading /\ pc' = pc) => UNCHANGED << prediction, error, isLoading >> ]_vars

\* A stroke drawn while the submission of a blank canvas is in flight.
C16_Witness ==
  /\ isLoading
  /\ pc = "fetch"
  /\ outstanding[1].form[1].value.pixels = {}
  /\ canvas # {}
  /\ isDrawing
  /\ prediction = NoPrediction
  /\ error = NoError

====
